---- MODULE Spec2Model ----
(***************************************************************************)
(* Model of list-gen-bot.py (ListGenBot): the section-keyed upsert of      *)
(* _add_to_list, the line scanner and render substitution of               *)
(* main_function / _render_list, and the batch sweep of run.               *)
(*                                                                         *)
(* A text is a sequence of tokens.  A token is either one character        *)
(* ("=", " ", "\n", "a", "T", ...) or one of the literal fragments the     *)
(* regular expressions of the program are built from ("{{ListGenBot-List", *)
(* "Start|", "End", "}}", ...).  No token is a prefix of another one and   *)
(* no literal of a regular expression occurs across a token boundary, so   *)
(* matching and comparing token by token is matching and comparing the     *)
(* character strings the tokens spell.                                     *)
(*                                                                         *)
(* The wiki is the external store: a function from page names to texts.    *)
(* A page that does not exist reads as the empty text.                     *)
(***************************************************************************)
EXTENDS Integers, Sequences, FiniteSets, TLC

VARIABLES
    store,                \* the wiki: page name -> text
    saves,                \* page.save calls of the last handler, in order
    call,                 \* the last handler invocation and its arguments
    prev,                 \* the store as it was when that handler started
    rendered,             \* new_text of the last main_function
    latest,               \* source title -> content of its most recent upsert
    pages_to_run,         \* titles the enumerator returned to the last run
    processed,            \* titles main_function has been run on by run
    phase,                \* parity of the number of run invocations
    PAGES_TO_GO_THROUGH   \* the batch size the module was configured with

vars == <<store, saves, call, prev, rendered, latest, pages_to_run,
          processed, phase, PAGES_TO_GO_THROUGH>>

-----------------------------------------------------------------------------
(* Bounds of the model. *)

MaxContent == 2     \* lines of content in one upsert
MaxAggLines == 4    \* lines of an aggregate page drawn by Init
MaxBatch == 3       \* largest configured batch size
MaxSrcLines == 4    \* lines of a document with content markers
MaxRenderLines == 4 \* lines of a document with render markers
MaxMid == 1         \* lines between two render marker pairs
MaxInlineLines == 3 \* lines of a document with markers inside lines
MaxRenders == 2     \* render passes over one text that are told apart
MaxNestedLines == 4 \* lines of a document with markers of two lists

-----------------------------------------------------------------------------
(* Python values. *)

None == <<>>
Some(x) == <<x>>

\* bool(x) of an Optional[int]: None and 0 are falsy.
Truthy(x) == x # None /\ x[1] # 0

NL == "\n"
EmptyText == <<>>

Min(S) == CHOOSE x \in S : \A y \in S : x <= y
Max(S) == CHOOSE x \in S : \A y \in S : x >= y

\* text.split('\n')
RECURSIVE split(_)
split(text) ==
    LET idx == {i \in 1..Len(text) : text[i] = NL}
    IN  IF idx = {} THEN <<text>>
        ELSE <<SubSeq(text, 1, Min(idx) - 1)>>
                 \o split(SubSeq(text, Min(idx) + 1, Len(text)))

\* '\n'.join(lines)
RECURSIVE join(_)
join(lines) ==
    IF lines = <<>> THEN EmptyText
    ELSE IF Len(lines) = 1 THEN lines[1]
    ELSE lines[1] \o <<NL>> \o join(Tail(lines))

\* lst[lo:hi] deleted, lo and hi 0-based, hi exclusive, already clamped.
DelSlice(lst, lo, hi) ==
    IF hi <= lo THEN lst
    ELSE SubSeq(lst, 1, lo) \o SubSeq(lst, hi + 1, Len(lst))

\* Python's clamping of a slice bound into 0..len.
Clamp(i, n) == IF i < 0 THEN 0 ELSE IF i > n THEN n ELSE i

-----------------------------------------------------------------------------
(* The store. *)

STORAGE_PAGE == <<"Powerpedia:ListGenBotInfo">>

\* PAGES_TO_GO_THROUGH as the module sets it.
DefaultPagesToGoThrough == 25

\* pywikibot.Page(site, name).text
page_text(st, page_name) ==
    IF page_name \in DOMAIN st THEN st[page_name] ELSE EmptyText

\* page.text = text; page.save(summary)
page_save(st, page_name, text) ==
    [n \in DOMAIN st \cup {page_name} |->
        IF n = page_name THEN text ELSE st[n]]

_get_page_text(st, page_name) == split(page_text(st, page_name))

SaveRec(page_name, text, summary) ==
    [page |-> page_name, text |-> text, summary |-> summary]

-----------------------------------------------------------------------------
(* Regular expressions. *)

NoEq(s) == \A i \in 1..Len(s) : s[i] # "="
AllEq(s) == \A i \in 1..Len(s) : s[i] = "="

\* (=+)([^=]*)(=+) matching the whole of s
TitleCore(s) ==
    \E i \in 1..Len(s) : \E j \in 1..(Len(s) - i) :
        /\ AllEq(SubSeq(s, 1, i))
        /\ AllEq(SubSeq(s, Len(s) - j + 1, Len(s)))
        /\ NoEq(SubSeq(s, i + 1, Len(s) - j))

\* title_search = ^(=+)([^=]*)(=+)[ ]?$
title_search(line) ==
    \/ TitleCore(line)
    \/ /\ Len(line) > 0
       /\ line[Len(line)] = " "
       /\ TitleCore(SubSeq(line, 1, Len(line) - 1))

_find_title(line) == title_search(line)

-----------------------------------------------------------------------------
(* _add_to_list *)

\* f'=={section}=='
Heading(section) == <<"=", "=">> \o section \o <<"=", "=">>

\* f'ListGenBot {list_name}'
ListPage(list_name) == <<"ListGenBot ">> \o list_name

\* The loop of step 1 from line number line_no (0-based) on: the values of
\* start and end when it ends.
RECURSIVE FindSection(_, _, _, _)
FindSection(page_lines, section, line_no, start) ==
    IF line_no >= Len(page_lines) THEN [start |-> start, end |-> None]
    ELSE LET line == page_lines[line_no + 1]
         IN  IF line = section
             THEN FindSection(page_lines, section, line_no + 1, Some(line_no))
             ELSE IF Truthy(start) /\ _find_title(line)
             THEN [start |-> start, end |-> Some(line_no - 1)]
             ELSE FindSection(page_lines, section, line_no + 1, start)

\* The deletion of step 1, r holding start and end as the loop left them.
\* del page_lines[None:] deletes every line.
DeleteFound(page_lines, r) ==
    LET n == Len(page_lines)
        lo == IF r.start = None THEN 0 ELSE Clamp(r.start[1], n)
    IN  IF r.start # None /\ r.end # None
        THEN DelSlice(page_lines, lo, Clamp(r.end[1] + 1, n))
        ELSE IF r.end = None
        THEN DelSlice(page_lines, lo, n)
        ELSE page_lines

\* Step 1: remove the content that was previously in the section.
RemoveOld(page_lines, section) ==
    DeleteFound(page_lines, FindSection(page_lines, section, 0, None))

\* Step 2: the new content.
AddNew(page_lines, section, content) ==
    IF content # <<>> THEN page_lines \o <<section>> \o content
    ELSE page_lines

\* The text of an upsert that appends the new section and leaves the old
\* one where it is.
AppendOnlyText(st, content, section, list_name) ==
    join(AddNew(_get_page_text(st, ListPage(list_name)),
                Heading(section), content))

\* The text _add_to_list saves.
AddToListText(st, content, section, list_name) ==
    join(AddNew(RemoveOld(_get_page_text(st, ListPage(list_name)),
                          Heading(section)),
                Heading(section), content))

\* page.text = text; page.save('Add list content to list')
SaveList(st, page_name, text) ==
    [store |-> page_save(st, page_name, text),
     saves |-> <<SaveRec(page_name, text, "Add list content to list")>>]

\* _add_to_list: the store and the save it leaves.
_add_to_list(st, content, section, list_name) ==
    SaveList(st, ListPage(list_name),
             AddToListText(st, content, section, list_name))

-----------------------------------------------------------------------------
(* The marker patterns. *)

\* bool(s) of an Optional[str]: None and '' are falsy.
TruthyStr(x) == x # None /\ x[1] # <<>>

Positions(line, tok) == {i \in 1..Len(line) : line[i] = tok}

\* The places of line where the literal {{ListGenBot-SourceStart| begins.
SourceStartAt(line) ==
    {i \in Positions(line, "{{ListGenBot-Source") :
        i < Len(line) /\ line[i + 1] = "Start|"}

\* list_content_start = \{\{ListGenBot-SourceStart\|(.+)\}\}, searched in
\* line: group 1 of the leftmost match, (.+) taking as much as it can.
list_content_start(line) ==
    LET closes(i) == {e \in Positions(line, "}}") : e >= i + 3}
        found == {i \in SourceStartAt(line) : closes(i) # {}}
    IN  IF found = {} THEN None
        ELSE Some(SubSeq(line, Min(found) + 2, Max(closes(Min(found))) - 1))

\* list_content_end = \{\{ListGenBot-SourceEnd\}\}, searched in line.
list_content_end(line) ==
    \E i \in Positions(line, "{{ListGenBot-Source") :
        /\ i + 2 <= Len(line)
        /\ line[i + 1] = "End"
        /\ line[i + 2] = "}}"

_find_list_content_start(line) == list_content_start(line)

_find_list_content_end(line) == list_content_end(line)

\* (\{\{ListGenBot-List(.*)Start\|(.+)\}\}) within one line: the leftmost
\* place p it matches from, with both groups taking as much as they can.
RenderStartGroup(line) ==
    LET closes(s) == {e \in Positions(line, "}}") : e >= s + 2}
        starts(p) == {s \in Positions(line, "Start|") :
                         s > p /\ closes(s) # {}}
        found == {p \in Positions(line, "{{ListGenBot-List") : starts(p) # {}}
    IN  IF found = {} THEN None
        ELSE LET p == Min(found)
                 s == Max(starts(p))
                 e == Max(closes(s))
             IN  Some([from |-> p, to |-> e,
                       text |-> SubSeq(line, p, e),
                       start |-> SubSeq(line, p + 1, s - 1),
                       list_name |-> SubSeq(line, s + 1, e - 1)])

\* .*(\{\{ListGenBot-List(.*)End\}\}) within one line: .* and then the group
\* taking as much as they can.
RenderEndGroup(line) ==
    LET ends(q) == {k \in Positions(line, "End") :
                       k > q /\ k < Len(line) /\ line[k + 1] = "}}"}
        found == {q \in Positions(line, "{{ListGenBot-List") : ends(q) # {}}
    IN  IF found = {} THEN None
        ELSE LET q == Max(found)
                 k == Max(ends(q))
             IN  Some([from |-> q, to |-> k + 1,
                       text |-> SubSeq(line, q, k + 1),
                       end |-> SubSeq(line, q + 1, k - 1)])

\* list_render_template searched in the lines of a text: the leftmost match.
\* (?:.*\n)+ takes as many lines as it can, so the match runs from the first
\* start marker to the end marker of the last line that holds one.
list_render_template(lines) ==
    LET startLines == {l \in 1..Len(lines) : RenderStartGroup(lines[l]) # None}
        endLines(l) == {m \in (l + 1)..Len(lines) :
                           RenderEndGroup(lines[m]) # None}
    IN  IF startLines = {} \/ endLines(Min(startLines)) = {} THEN None
        ELSE LET l == Min(startLines)
                 m == Max(endLines(l))
             IN  Some([first |-> l, last |-> m,
                       open |-> RenderStartGroup(lines[l])[1],
                       close |-> RenderEndGroup(lines[m])[1]])

-----------------------------------------------------------------------------
(* _render_list *)

\* The tokens in the order of the characters they begin with.
TokenOrder ==
    <<"\n", " ", "(", ")", "=", "Alphabetical", "End", "ListGenBot ",
      "Powerpedia:ListGenBotInfo", "Sectioned", "Start|", "T", "U", "V",
      "X", "Y", "[", "]", "a", "b", "c", "{{ListGenBot-List",
      "{{ListGenBot-Source", "}}">>

Rank(tok) == CHOOSE i \in 1..Len(TokenOrder) : TokenOrder[i] = tok

\* a < b for str
RECURSIVE StrLess(_, _)
StrLess(a, b) ==
    IF b = <<>> THEN FALSE
    ELSE IF a = <<>> THEN TRUE
    ELSE IF Head(a) = Head(b) THEN StrLess(Tail(a), Tail(b))
    ELSE Rank(Head(a)) < Rank(Head(b))

\* sorted(lst): stable, ascending.
RECURSIVE sorted(_)
sorted(lst) ==
    IF lst = <<>> THEN <<>>
    ELSE LET rest == sorted(Tail(lst))
             x == Head(lst)
             before == {i \in 1..Len(rest) : StrLess(rest[i], x)}
             k == IF before = {} THEN 0 ELSE Max(before)
         IN  SubSeq(rest, 1, k) \o <<x>> \o SubSeq(rest, k + 1, Len(rest))

\* line.strip('=')
strip_eq(line) ==
    LET keep == {i \in 1..Len(line) : line[i] # "="}
    IN  IF keep = {} THEN <<>> ELSE SubSeq(line, Min(keep), Max(keep))

\* A level-3 heading around the link alone, without the parentheses.
SectionedTitleBare(line) ==
    <<"=", "=", "=", "[", "[">> \o strip_eq(line) \o <<"]", "]", "=", "=", "=">>

\* f"===([[{line.strip('=')}]])==="
SectionedTitle(line) ==
    <<"=", "=", "=", "(", "[", "[">> \o strip_eq(line)
        \o <<"]", "]", ")", "=", "=", "=">>

SectionedLines(page_lines) ==
    [i \in 1..Len(page_lines) |->
        IF ~_find_title(page_lines[i]) THEN page_lines[i]
        ELSE SectionedTitle(page_lines[i])]

\* The lines that are no headings, in the order the page has them.
AlphabeticalLinesUnsorted(page_lines) ==
    SelectSeq(page_lines, LAMBDA x : ~_find_title(x))

AlphabeticalLines(page_lines) ==
    sorted(SelectSeq(page_lines, LAMBDA x : ~_find_title(x)))

\* page_lines of _render_list for the match m.
RenderedLines(st, m) ==
    LET page_name == ListPage(m.open.list_name)
    IN  IF m.open.start = m.close.end
        THEN IF m.open.start = <<"Sectioned">>
             THEN SectionedLines(_get_page_text(st, page_name))
             ELSE IF m.open.start = <<"Alphabetical">>
             THEN AlphabeticalLines(_get_page_text(st, page_name))
             ELSE <<>>
        ELSE <<>>

\* _render_list: the replacement of the match m.
_render_list(st, m) ==
    m.open.text \o <<NL>> \o join(RenderedLines(st, m)) \o <<NL>>
        \o m.close.text

\* A substitution that replaces the line of the start marker only and keeps
\* the lines after it, the end marker among them.
ReplacedStartLineOnly(st, lines, m) ==
    join(SubSeq(lines, 1, m.first - 1)
         \o <<SubSeq(lines[m.first], 1, m.open.from - 1)
                \o _render_list(st, m)>>
         \o SubSeq(lines, m.first + 1, Len(lines)))

\* The text with the match m replaced by what _render_list returns for it.
Replaced(st, lines, m) ==
    join(SubSeq(lines, 1, m.first - 1)
         \o <<SubSeq(lines[m.first], 1, m.open.from - 1)
                \o _render_list(st, m)
                \o SubSeq(lines[m.last], m.close.to + 1, Len(lines[m.last]))>>
         \o SubSeq(lines, m.last + 1, Len(lines)))

\* The text with the match found, if any, replaced: there is no second
\* match after the last line that holds an end marker.
SubFound(st, text, lines, found) ==
    IF found = None THEN text ELSE Replaced(st, lines, found[1])

SubLines(st, text, lines) ==
    SubFound(st, text, lines, list_render_template(lines))

\* list_render_template.sub(repl=self._render_list, string=text)
render_sub(st, text) == SubLines(st, text, split(text))

-----------------------------------------------------------------------------
(* main_function *)

\* The end of a block: in_list and list_content are reset, r is what
\* _add_to_list left.
EndList(s, r) ==
    [in_list |-> None, list_content |-> <<>>,
     store |-> r.store, saves |-> s.saves \o r.saves]

\* ScanLine without the test for heading lines: every line between the
\* markers is accumulated.
ScanLineKeepingTitles(s, line, page) ==
    IF TruthyStr(s.in_list)
    THEN IF _find_list_content_end(line)
         THEN EndList(s, _add_to_list(s.store, s.list_content, page,
                                      s.in_list[1]))
         ELSE [s EXCEPT !.list_content = Append(@, line)]
    ELSE [s EXCEPT !.in_list = _find_list_content_start(line)]

\* ScanLine with the lines outside the blocks accumulated as well: a line
\* that holds no start marker is kept for the block that opens next.
ScanLineKeepingOutside(s, line, page) ==
    IF TruthyStr(s.in_list)
    THEN IF _find_list_content_end(line)
         THEN EndList(s, _add_to_list(s.store, s.list_content, page,
                                      s.in_list[1]))
         ELSE IF ~_find_title(line)
         THEN [s EXCEPT !.list_content = Append(@, line)]
         ELSE s
    ELSE [s EXCEPT !.in_list = _find_list_content_start(line),
                   !.list_content =
                       IF _find_list_content_start(line) = None
                       THEN Append(@, line) ELSE @]

\* ScanLine with a start marker line inside a block opening a new block:
\* the list named changes and the lines accumulated so far are dropped.
ScanLineReopening(s, line, page) ==
    IF TruthyStr(s.in_list)
    THEN IF _find_list_content_end(line)
         THEN EndList(s, _add_to_list(s.store, s.list_content, page,
                                      s.in_list[1]))
         ELSE IF _find_list_content_start(line) # None
         THEN [s EXCEPT !.in_list = _find_list_content_start(line),
                        !.list_content = <<>>]
         ELSE IF ~_find_title(line)
         THEN [s EXCEPT !.list_content = Append(@, line)]
         ELSE s
    ELSE [s EXCEPT !.in_list = _find_list_content_start(line)]

\* One iteration of the loop over page_lines.  s holds in_list and
\* list_content, and the store and the saves so far.
ScanLine(s, line, page) ==
    IF TruthyStr(s.in_list)
    THEN IF _find_list_content_end(line)
         THEN EndList(s, _add_to_list(s.store, s.list_content, page,
                                      s.in_list[1]))
         ELSE IF ~_find_title(line)
         THEN [s EXCEPT !.list_content = Append(@, line)]
         ELSE s
    ELSE [s EXCEPT !.in_list = _find_list_content_start(line)]

RECURSIVE ScanLines(_, _, _)
ScanLines(s, page_lines, page) ==
    IF page_lines = <<>> THEN s
    ELSE ScanLines(ScanLine(s, Head(page_lines), page), Tail(page_lines), page)

\* The block that is still open when the lines are over, added to its list.
FlushOpen(s, page) ==
    IF TruthyStr(s.in_list)
    THEN EndList(s, _add_to_list(s.store, s.list_content, page, s.in_list[1]))
    ELSE s

\* The loop over the lines, with the block left open at the end of the
\* document added to its list as if an end marker had followed.
ScanFlushingAtEnd(st, page) ==
    FlushOpen(ScanLines([in_list |-> None, list_content |-> <<>>,
                         store |-> st, saves |-> <<>>],
                        _get_page_text(st, page), page),
              page)

\* find list content: the loop over the lines the page had when it was read.
Scan(st, page) ==
    ScanLines([in_list |-> None, list_content |-> <<>>,
               store |-> st, saves |-> <<>>],
              _get_page_text(st, page), page)

\* page.text = new_text, and then the test of page.text against new_text:
\* the test is between new_text and itself.
SaveIfChanged(st, page, new_text) ==
    LET text_now == new_text
    IN  [new_text |-> new_text,
         store |-> IF text_now # new_text
                   THEN page_save(st, page, new_text) ELSE st,
         saves |-> IF text_now # new_text
                   THEN <<SaveRec(page, new_text, "Render lists")>>
                   ELSE <<>>]

\* render lists
RenderAndSave(st, page) ==
    SaveIfChanged(st, page, render_sub(st, page_text(st, page)))

\* What main_function leaves: s from the scan, r from the render pass.
MainResult(s, r) ==
    [store |-> r.store, saves |-> s.saves \o r.saves, new_text |-> r.new_text]

\* main_function with the render pass reading the store as it was before
\* the scan made its upserts.
RenderBeforeScan(st, page) ==
    MainResult(Scan(st, page), RenderAndSave(st, page))

RenderScanned(s, page) == MainResult(s, RenderAndSave(s.store, page))

main_function(st, page) == RenderScanned(Scan(st, page), page)

-----------------------------------------------------------------------------
(* run *)

\* The titles of a set in ascending order.
RECURSIVE Ascending(_)
Ascending(S) ==
    IF S = {} THEN <<>>
    ELSE LET least == CHOOSE x \in S : \A y \in S \ {x} : StrLess(x, y)
         IN  <<least>> \o Ascending(S \ {least})

\* The pages list=allpages enumerates: the pages of the main namespace.
AllPages(st) == DOMAIN st \ {STORAGE_PAGE}

\* _pages_from: the first aplimit titles from apfrom on, apfrom included.
_pages_from(st, start_point, aplimit) ==
    LET titles == Ascending({t \in AllPages(st) : ~StrLess(t, start_point)})
    IN  SubSeq(titles, 1, IF Len(titles) < aplimit THEN Len(titles) ELSE aplimit)

\* _get_page_start: page.text.split('\n')[0]
_get_page_start(st) == split(page_text(st, STORAGE_PAGE))[1]

\* _set_page_start
_set_page_start(st, new_start) ==
    [store |-> page_save(st, STORAGE_PAGE, new_start),
     saves |-> <<SaveRec(STORAGE_PAGE, new_start,
                         "Store new page from last execution.")>>]

\* One iteration of the loop with the start written after every page, not
\* after the batch.
AfterPageSavingStart(s, page, r) ==
    [last_page_seen |-> page,
     store |-> page_save(r.store, STORAGE_PAGE, page),
     saves |-> s.saves \o r.saves
                  \o <<SaveRec(STORAGE_PAGE, page,
                               "Store new page from last execution.")>>,
     new_text |-> r.new_text]

\* One iteration of the loop of run: r is what main_function left.
AfterPage(s, page, r) ==
    [last_page_seen |-> page, store |-> r.store,
     saves |-> s.saves \o r.saves, new_text |-> r.new_text]

\* The loop of run over the pages from the i-th on.  s holds last_page_seen,
\* the store, the saves and new_text of the last main_function.
RECURSIVE RunPages(_, _, _)
RunPages(s, pages, i) ==
    IF i > Len(pages) THEN s
    ELSE RunPages(AfterPage(s, pages[i], main_function(s.store, pages[i])),
                  pages, i + 1)

\* The start run writes when the loop is over: a batch with fewer pages than
\* the limit wraps to the beginning.
NextStartWrappingFullBatch(pages, last_page_seen, limit) ==
    IF Len(pages) <= limit THEN EmptyText ELSE last_page_seen

NextStart(pages, last_page_seen, limit) ==
    IF Len(pages) < limit THEN EmptyText ELSE last_page_seen

\* What run leaves: s from the loop, w from _set_page_start.
RunResult(pages, s, w) ==
    [store |-> w.store, saves |-> s.saves \o w.saves,
     pages_to_run |-> pages, new_text |-> s.new_text]

\* when done, set the page that we need to start from next
SetNextStart(pages, limit, s) ==
    RunResult(pages, s,
              _set_page_start(s.store,
                              NextStart(pages, s.last_page_seen, limit)))

\* loop through pages
RunBatch(st, limit, new_text, pages) ==
    SetNextStart(pages, limit,
                 RunPages([last_page_seen |-> EmptyText, store |-> st,
                           saves |-> <<>>, new_text |-> new_text], pages, 1))

run(st, limit, new_text) ==
    RunBatch(st, limit, new_text,
             _pages_from(st, _get_page_start(st), limit))

\* The saves of the loop of run, in the order they are made.
LoopSaves(st, limit) ==
    RunPages([last_page_seen |-> EmptyText, store |-> st,
              saves |-> <<>>, new_text |-> EmptyText],
             _pages_from(st, _get_page_start(st), limit), 1).saves

\* The store with the saves of recs made, in order.
RECURSIVE ApplySaves(_, _)
ApplySaves(st, recs) ==
    IF recs = <<>> THEN st
    ELSE ApplySaves(page_save(st, Head(recs).page, Head(recs).text),
                    Tail(recs))

-----------------------------------------------------------------------------
(* The texts the model draws its pages from. *)

Titles == {<<"T">>, <<"U">>}
UpsertLists == {<<"X">>}
ContentLines == {<<"a">>, <<"b">>}

SeqsUpTo(S, n) == UNION {[1..k -> S] : k \in 0..n}

Contents == SeqsUpTo(ContentLines, MaxContent)

AggLines == ContentLines \cup {Heading(t) : t \in Titles}

\* An aggregate document as the data model describes it: a sequence of
\* sections, each a heading followed by a non-empty body, no heading twice.
WellFormedAgg(lines) ==
    /\ lines # <<>> => _find_title(lines[1])
    /\ \A i \in 1..Len(lines) :
          _find_title(lines[i]) =>
              /\ i < Len(lines)
              /\ ~_find_title(lines[i + 1])
              /\ \A j \in 1..Len(lines) : lines[j] = lines[i] => j = i

AggTexts ==
    {join(lines) : lines \in {l \in SeqsUpTo(AggLines, MaxAggLines) :
                                 WellFormedAgg(l)}}

\* The marker lines, as documents spell them.
SourceStart(list_name) ==
    <<"{{ListGenBot-Source", "Start|">> \o list_name \o <<"}}">>
SourceEnd == <<"{{ListGenBot-Source", "End", "}}">>
ListStart(mode, list_name) ==
    <<"{{ListGenBot-List">> \o mode \o <<"Start|">> \o list_name \o <<"}}">>
ListEnd(mode) == <<"{{ListGenBot-List">> \o mode \o <<"End", "}}">>

Sectioned == <<"Sectioned">>
Alphabetical == <<"Alphabetical">>
Modes == {Sectioned, Alphabetical}

\* A heading line of a document.
DocHeading == <<"=", "c", "=">>

\* Documents that feed a list: content markers, content and heading lines.
SrcLines ==
    {SourceStart(l) : l \in UpsertLists} \cup {SourceEnd, DocHeading}
        \cup ContentLines
SrcTexts == {join(lines) : lines \in SeqsUpTo(SrcLines, MaxSrcLines)}

\* Documents that show a list: render markers and other lines.
RenderLines ==
    {ListStart(m, l) : m \in Modes, l \in UpsertLists}
        \cup {ListEnd(m) : m \in Modes} \cup {<<"a">>}
RenderTexts == {join(lines) : lines \in SeqsUpTo(RenderLines, MaxRenderLines)}

\* Documents that show two lists: two marker pairs and the lines between.
MarkerPairs ==
    {<<ListStart(m1, l), ListEnd(m2)>> :
        m1 \in Modes, m2 \in Modes, l \in UpsertLists}
TwoPairTexts ==
    {join(p1 \o mid \o p2) :
        p1 \in MarkerPairs, p2 \in MarkerPairs,
        mid \in SeqsUpTo({<<"a">>}, MaxMid)}

\* The aggregate pages documents are processed against.
DocAggTexts ==
    {EmptyText,
     join(<<Heading(<<"U">>), <<"b">>, <<"a">>>>),
     join(<<Heading(<<"T">>), <<"b">>, Heading(<<"U">>), <<"a">>>>)}

DocTitles == {<<"T">>}

\* The pages of a wiki the bot sweeps, and the texts they hold.
RunTitles == Titles \cup {<<"V">>}
RunTexts ==
    {join(<<<<"a">>>>),
     join(<<SourceStart(<<"X">>), <<"a">>, SourceEnd>>),
     join(<<ListStart(Sectioned, <<"X">>), ListEnd(Sectioned)>>)}
RunAggTexts == {EmptyText, join(<<Heading(<<"U">>), <<"b">>>>)}

\* The wikis with the pages of the set S.
Wikis(S) == [S -> RunTexts]

NoCall == [op |-> "none"]
NoStore == [n \in {} |-> EmptyText]

-----------------------------------------------------------------------------
(* Upserts into one list. *)

AddToList ==
    \E content \in Contents, section \in Titles, list_name \in UpsertLists :
        LET r == _add_to_list(store, content, section, list_name)
        IN  /\ store' = r.store
            /\ saves' = r.saves
            /\ call' = [op |-> "_add_to_list", content |-> content,
                        section |-> section, list_name |-> list_name]
            /\ prev' = store
            /\ latest' = [latest EXCEPT ![section] = content]
            /\ UNCHANGED <<rendered, pages_to_run, processed, phase,
                           PAGES_TO_GO_THROUGH>>

InitGhosts ==
    /\ saves = <<>>
    /\ call = NoCall
    /\ prev = NoStore
    /\ rendered = EmptyText
    /\ latest = [t \in Titles |-> <<>>]
    /\ pages_to_run = <<>>
    /\ processed = {}
    /\ phase = FALSE

InitCommon ==
    /\ InitGhosts
    /\ PAGES_TO_GO_THROUGH = DefaultPagesToGoThrough

\* The aggregate page does not exist yet.
InitUpsert ==
    /\ store = NoStore
    /\ InitCommon

NextUpsert == AddToList

SpecUpsert == InitUpsert /\ [][NextUpsert]_vars

\* The aggregate page is any well-formed aggregate document: the wiki is
\* edited by others too.
InitAgg ==
    /\ \E list_name \in UpsertLists, text \in AggTexts :
          store = page_save(NoStore, ListPage(list_name), text)
    /\ InitCommon

NextAgg == AddToList

SpecAgg == InitAgg /\ [][NextAgg]_vars

-----------------------------------------------------------------------------
(* Reading an aggregate document as sections. *)

\* The lines of a text, the empty text having none.
DocLines(text) == IF text = EmptyText THEN <<>> ELSE split(text)

HeadingAt(lines, h) == {i \in 1..Len(lines) : lines[i] = h}

\* The line after the section that starts at line i: the next heading line,
\* or one past the end.
SectionEnd(lines, i) ==
    LET later == {j \in (i + 1)..Len(lines) : _find_title(lines[j])}
    IN  IF later = {} THEN Len(lines) + 1 ELSE Min(later)

BodyAt(lines, i) == SubSeq(lines, i + 1, SectionEnd(lines, i) - 1)

\* lines without the section headed h (its heading and its body).
WithoutSection(lines, h) ==
    LET i == Min(HeadingAt(lines, h))
    IN  SubSeq(lines, 1, i - 1) \o SubSeq(lines, SectionEnd(lines, i), Len(lines))

IsUpsert == call.op = "_add_to_list"
AggBefore == DocLines(page_text(prev, ListPage(call.list_name)))
AggAfter == DocLines(page_text(store, ListPage(call.list_name)))

-----------------------------------------------------------------------------
(* C1: after any sequence of upserts on one list, starting from an empty   *)
(* aggregate, the aggregate holds exactly one section for every title      *)
(* whose most recent upsert was non-empty, with that upsert's lines as its *)
(* body, and no section for any other title.                               *)
C1_SectionsAreLatest ==
    \A list_name \in UpsertLists : \A t \in Titles :
        LET lines == DocLines(page_text(store, ListPage(list_name)))
            at == HeadingAt(lines, Heading(t))
        IN  IF latest[t] # <<>>
            THEN /\ Cardinality(at) = 1
                 /\ \A i \in at : BodyAt(lines, i) = latest[t]
            ELSE at = {}

(* C2: an upsert for a title whose heading line is absent from the         *)
(* aggregate deletes no line: the aggregate afterwards is the aggregate    *)
(* before, followed by the new section when the content is non-empty.      *)
C2_AbsentHeadingDeletesNothing ==
    (IsUpsert /\ HeadingAt(AggBefore, Heading(call.section)) = {}) =>
        AggAfter = AddNew(AggBefore, Heading(call.section), call.content)

(* C3: upsert is idempotent: an upsert that repeats the arguments of the   *)
(* upsert just before it leaves the store as that one left it.             *)
C3_UpsertIdempotent ==
    [][(IsUpsert /\ call' = call) => store' = store]_vars

(* C4: an upsert with empty lines for a title that has a section removes   *)
(* exactly that section, heading and body, and leaves every other line of  *)
(* the aggregate in place and in order.                                    *)
C4_EmptyUpsertRemovesOnlyItsSection ==
    (/\ IsUpsert
     /\ call.content = <<>>
     /\ HeadingAt(AggBefore, Heading(call.section)) # {}) =>
        AggAfter = WithoutSection(AggBefore, Heading(call.section))

-----------------------------------------------------------------------------
(* Processing one document. *)

MainFunction ==
    \E page \in DocTitles :
        LET r == main_function(store, page)
        IN  /\ store' = r.store
            /\ saves' = r.saves
            /\ rendered' = r.new_text
            /\ call' = [op |-> "main_function", page |-> page]
            /\ prev' = store
            /\ UNCHANGED <<latest, pages_to_run, processed, phase,
                           PAGES_TO_GO_THROUGH>>

\* One document, with content markers or with render markers, and the
\* aggregate page of the list.
InitDoc ==
    /\ \E page \in DocTitles, text \in SrcTexts \cup RenderTexts \cup TwoPairTexts,
          list_name \in UpsertLists, agg \in DocAggTexts :
          store = page_save(page_save(NoStore, page, text),
                            ListPage(list_name), agg)
    /\ InitCommon

NextDoc == MainFunction

SpecDoc == InitDoc /\ [][NextDoc]_vars

-----------------------------------------------------------------------------
(* Reading a document by its marker lines. *)

IsMain == call.op = "main_function"
DocBefore == split(page_text(prev, call.page))
DocRendered == split(rendered)

IsSourceStart(line) == \E l \in UpsertLists : line = SourceStart(l)
IsListStart(line) == \E m \in Modes, l \in UpsertLists : line = ListStart(m, l)
IsListEnd(line) == \E m \in Modes : line = ListEnd(m)
IsMarker(line) ==
    IsSourceStart(line) \/ line = SourceEnd \/ IsListStart(line)
        \/ IsListEnd(line)

\* lines is one content block: a start marker, one or more body lines none
\* of which is a marker, and the end marker.
IsOneBlock(lines) ==
    /\ Len(lines) >= 3
    /\ IsSourceStart(lines[1])
    /\ lines[Len(lines)] = SourceEnd
    /\ \A i \in 2..(Len(lines) - 1) : ~IsMarker(lines[i])

BlockList(lines) == CHOOSE l \in UpsertLists : lines[1] = SourceStart(l)
BlockBody(lines) == SubSeq(lines, 2, Len(lines) - 1)
NoTitles(lines) == SelectSeq(lines, LAMBDA x : ~_find_title(x))

AggOf(list_name) == DocLines(page_text(store, ListPage(list_name)))

-----------------------------------------------------------------------------
(* C5 as stated: processing a document titled T that holds one content     *)
(* block for a list leaves, in that list's aggregate, a section headed     *)
(* ==T== whose body is the block's body lines without the heading lines.   *)
C5_RoundTripAnyBody ==
    (IsMain /\ IsOneBlock(DocBefore)) =>
        \E i \in HeadingAt(AggOf(BlockList(DocBefore)), Heading(call.page)) :
            BodyAt(AggOf(BlockList(DocBefore)), i)
                = NoTitles(BlockBody(DocBefore))

(* C5 amended: when at least one body line is not a heading line, the      *)
(* aggregate holds exactly one section headed ==T== and its body is the    *)
(* body lines without the heading lines, in order; when every body line is *)
(* a heading line the aggregate holds no section headed ==T==.             *)
C5_RoundTrip ==
    (IsMain /\ IsOneBlock(DocBefore)) =>
        LET agg == AggOf(BlockList(DocBefore))
            at == HeadingAt(agg, Heading(call.page))
            body == NoTitles(BlockBody(DocBefore))
        IN  IF body # <<>>
            THEN /\ Cardinality(at) = 1
                 /\ \A i \in at : BodyAt(agg, i) = body
            ELSE at = {}

\* A block whose body is a heading line and a content line, processed: the
\* section holds the content line.
C5_Witness ==
    /\ IsMain
    /\ IsOneBlock(DocBefore)
    /\ \E l \in UpsertLists :
          /\ DocBefore = <<SourceStart(l), DocHeading, <<"a">>, SourceEnd>>
          /\ \E i \in HeadingAt(AggOf(l), Heading(call.page)) :
                BodyAt(AggOf(l), i) = <<<<"a">>>>

-----------------------------------------------------------------------------
(* Render directives of a document. *)

MarkerIdx(lines) ==
    {i \in 1..Len(lines) : IsListStart(lines[i]) \/ IsListEnd(lines[i])}

\* The k-th smallest element of a set of numbers.
RECURSIVE Nth(_, _)
Nth(S, k) == IF k = 1 THEN Min(S) ELSE Nth(S \ {Min(S)}, k - 1)

\* The marker lines of lines alternate open, close, open, close, ...: each
\* open marker is paired with the close marker after it.
WellPaired(lines) ==
    LET idx == MarkerIdx(lines)
        n == Cardinality(idx)
    IN  /\ n % 2 = 0
        /\ \A k \in 1..n :
              IF k % 2 = 1 THEN IsListStart(lines[Nth(idx, k)])
              ELSE IsListEnd(lines[Nth(idx, k)])

Pairs(lines) == Cardinality(MarkerIdx(lines)) \div 2

\* Line i lies between an open marker and its close marker.
InsidePair(lines, i) ==
    /\ i \notin MarkerIdx(lines)
    /\ Cardinality({j \in MarkerIdx(lines) : j < i}) % 2 = 1

\* The lines outside all marker pairs, from line i on, the markers
\* themselves included.
RECURSIVE OutsideFrom(_, _)
OutsideFrom(lines, i) ==
    IF i > Len(lines) THEN <<>>
    ELSE (IF InsidePair(lines, i) THEN <<>> ELSE <<lines[i]>>)
             \o OutsideFrom(lines, i + 1)

OutsideLines(lines) == OutsideFrom(lines, 1)

OpenMode(line) ==
    CHOOSE m \in Modes : \E l \in UpsertLists : line = ListStart(m, l)
CloseMode(line) == CHOOSE m \in Modes : line = ListEnd(m)

\* The text the render pass read: the page after the upserts of the scan.
TextAtRender == page_text(Scan(prev, call.page).store, call.page)

RenderSaves ==
    SelectSeq(saves, LAMBDA r : r.page = call.page /\ r.summary = "Render lists")

-----------------------------------------------------------------------------
(* C6: a render directive whose open marker names another mode than its    *)
(* close marker is not rendered: the render pass leaves the text of the    *)
(* document, the lines between the two markers included, as it was.        *)
C6_MismatchedModeLeftVerbatim ==
    (/\ IsMain
     /\ WellPaired(DocBefore)
     /\ Pairs(DocBefore) = 1
     /\ OpenMode(DocBefore[Nth(MarkerIdx(DocBefore), 1)])
            # CloseMode(DocBefore[Nth(MarkerIdx(DocBefore), 2)]))
        => rendered = TextAtRender

(* C7: in a document with two or more marker pairs each pair is replaced   *)
(* on its own: the lines outside all pairs, the markers of every pair      *)
(* among them, are the same lines in the rendered text.                    *)
C7_PairsRenderedIndependently ==
    (IsMain /\ WellPaired(DocBefore) /\ Pairs(DocBefore) >= 2) =>
        /\ WellPaired(DocRendered)
        /\ OutsideLines(DocRendered) = OutsideLines(DocBefore)

(* C8: after the render pass the rendered text is saved when it differs    *)
(* from the text of the document, and no save is issued when it does not:  *)
(* either way the stored text is the rendered text.                        *)
C8_RenderedTextSavedIffChanged ==
    IsMain =>
        /\ page_text(store, call.page) = rendered
        /\ (rendered # TextAtRender) <=> (RenderSaves # <<>>)

-----------------------------------------------------------------------------
(* The sweep. *)

Run ==
    LET r == run(store, PAGES_TO_GO_THROUGH, rendered)
    IN  /\ store' = r.store
        /\ saves' = r.saves
        /\ rendered' = r.new_text
        /\ call' = [op |-> "run"]
        /\ prev' = store
        /\ pages_to_run' = r.pages_to_run
        /\ processed' = processed \cup {r.pages_to_run[i] :
                                           i \in 1..Len(r.pages_to_run)}
        /\ phase' = ~phase
        /\ UNCHANGED <<latest, PAGES_TO_GO_THROUGH>>

\* A wiki with some of the pages, the aggregate page of the list, and the
\* storage page holding nothing or a title; any batch size up to MaxBatch.
InitRun ==
    /\ \E S \in SUBSET RunTitles :
          \E w \in Wikis(S), agg \in RunAggTexts,
             start \in {EmptyText} \cup RunTitles :
              store = page_save(page_save(w, ListPage(<<"X">>), agg),
                                STORAGE_PAGE, start)
    /\ PAGES_TO_GO_THROUGH \in 1..MaxBatch
    /\ InitGhosts

NextRun == Run

\* run is invoked again and again.  Every invocation changes phase and
\* nothing else does, so the fairness of the invocations is stated on phase.
Invoked == phase' = ~phase

SpecRun == InitRun /\ [][NextRun]_vars /\ WF_phase(Invoked)

IsRun == call.op = "run"

-----------------------------------------------------------------------------
(* C9: invoking run again and again processes every title of the corpus,   *)
(* whatever the batch size, and the cursor wraps back to the empty string. *)
C9_SweepCoversCorpus ==
    <>(/\ AllPages(store) \subseteq processed
       /\ IsRun
       /\ _get_page_start(store) = EmptyText)

\* With a batch size of two or more the sweep does cover the corpus and
\* wrap.
SweepCoversCorpusFromTwo ==
    (PAGES_TO_GO_THROUGH >= 2) => C9_SweepCoversCorpus

(* C10: after a run the stored cursor is the empty string when the         *)
(* enumerator returned fewer titles than the batch size, and the last      *)
(* title of the batch when it returned as many as the batch size.          *)
C10_CursorAfterRun ==
    IsRun =>
        _get_page_start(store) =
            IF Len(pages_to_run) < PAGES_TO_GO_THROUGH THEN EmptyText
            ELSE pages_to_run[Len(pages_to_run)]

\* A run whose batch was full, of two titles or more: the cursor is the last.
C10_Witness ==
    /\ IsRun
    /\ PAGES_TO_GO_THROUGH >= 2
    /\ Len(pages_to_run) = PAGES_TO_GO_THROUGH
    /\ _get_page_start(store) = pages_to_run[PAGES_TO_GO_THROUGH]
    /\ _get_page_start(prev) # _get_page_start(store)

-----------------------------------------------------------------------------
(* A run that fails. *)

\* run has no exception handler: a call to the store or to the enumerator
\* that raises ends run there.  What the store holds then is what the saves
\* made before that call have written: the first j saves of the loop, the
\* call that raises being any call after the j-th save and up to the save of
\* _set_page_start itself.
RunFails ==
    \E j \in 0..Len(LoopSaves(store, PAGES_TO_GO_THROUGH)) :
        /\ store' = ApplySaves(store,
                        SubSeq(LoopSaves(store, PAGES_TO_GO_THROUGH), 1, j))
        /\ saves' = SubSeq(LoopSaves(store, PAGES_TO_GO_THROUGH), 1, j)
        /\ call' = [op |-> "run_failed"]
        /\ prev' = store
        /\ pages_to_run' = _pages_from(store, _get_page_start(store),
                                       PAGES_TO_GO_THROUGH)
        /\ phase' = ~phase
        /\ UNCHANGED <<rendered, latest, processed, PAGES_TO_GO_THROUGH>>

NextRunFail == Run \/ RunFails

SpecRunFail == InitRun /\ [][NextRunFail]_vars

IsRunFailed == call.op = "run_failed"

(* C11: when a call fails while a batch is in progress run aborts with the *)
(* stored cursor exactly as it was before the invocation, so that the next *)
(* invocation enumerates from the same start title and gets the titles the *)
(* failed one got.                                                         *)
C11_CursorKeptOnFailure ==
    IsRunFailed =>
        /\ page_text(store, STORAGE_PAGE) = page_text(prev, STORAGE_PAGE)
        /\ _get_page_start(store) = _get_page_start(prev)

\* A run that failed after it had saved an aggregate page, with a cursor
\* that names a title: the cursor still names it.
C11_Witness ==
    /\ IsRunFailed
    /\ saves # <<>>
    /\ store # prev
    /\ Len(pages_to_run) >= 2
    /\ _get_page_start(prev) \in RunTitles
    /\ _get_page_start(store) = _get_page_start(prev)

-----------------------------------------------------------------------------
(* The render substitution, applied again and again to one text. *)

\* Lines with a marker and other text before and after it.
InlineLines ==
    {<<"a">> \o ListStart(Sectioned, l) \o <<"b">> : l \in UpsertLists}
        \cup {<<"a">> \o ListEnd(Sectioned) \o <<"b">>, <<"a">>}
InlineTexts == {join(lines) : lines \in SeqsUpTo(InlineLines, MaxInlineLines)}

\* Aggregate pages, some of them with marker lines of their own.
RenderAggTexts ==
    DocAggTexts \cup
        {join(<<Heading(<<"T">>), ListEnd(Sectioned), <<"a">>>>),
         join(<<Heading(<<"T">>), ListStart(Sectioned, <<"X">>), <<"a">>>>)}

\* list_render_template.sub applied to the text of the page the first time
\* and to its own output from then on, the store being left alone.
RenderSub ==
    /\ call' = [op |-> "render_sub",
                text |-> IF call.op = "render_sub" THEN rendered
                         ELSE page_text(store, <<"T">>),
                n |-> IF call.op = "render_sub"
                      THEN Min({call.n + 1, MaxRenders}) ELSE 1]
    /\ rendered' = render_sub(store, call'.text)
    /\ saves' = <<>>
    /\ prev' = store
    /\ UNCHANGED <<store, latest, pages_to_run, processed, phase,
                   PAGES_TO_GO_THROUGH>>

InitRender ==
    /\ \E text \in RenderTexts \cup TwoPairTexts \cup InlineTexts,
          list_name \in UpsertLists, agg \in RenderAggTexts :
          store = page_save(page_save(NoStore, <<"T">>, text),
                            ListPage(list_name), agg)
    /\ InitCommon

NextRender == RenderSub

SpecRender == InitRender /\ [][NextRender]_vars

IsRenderSub == call.op = "render_sub"

(* C12: render is idempotent for a fixed set of aggregate documents: the   *)
(* render substitution applied to the output of a first render gives that  *)
(* output again.                                                           *)
C12_RenderIdempotent ==
    (IsRenderSub /\ call.n >= 2) => rendered = call.text

\* A second render of a text the first render had changed, with a list
\* that has lines to show.
C12_Witness ==
    /\ IsRenderSub
    /\ call.n >= 2
    /\ call.text # page_text(store, <<"T">>)
    /\ rendered = call.text
    /\ \E i \in 1..Len(split(rendered)) : split(rendered)[i] = <<"b">>

-----------------------------------------------------------------------------
(* One render directive, its two markers on lines of their own. *)

OnePair(lines) == WellPaired(lines) /\ Pairs(lines) = 1
OpenAt(lines) == Nth(MarkerIdx(lines), 1)
CloseAt(lines) == Nth(MarkerIdx(lines), 2)
OpenList(line) ==
    CHOOSE l \in UpsertLists : \E m \in Modes : line = ListStart(m, l)

BothModes(lines, mode) ==
    /\ OpenMode(lines[OpenAt(lines)]) = mode
    /\ CloseMode(lines[CloseAt(lines)]) = mode

\* The lines of the aggregate page the directive of lines names.
DirectiveAgg(lines) ==
    split(page_text(store, ListPage(OpenList(lines[OpenAt(lines)]))))

\* after is before with the lines between its two markers replaced by body.
BodyReplaced(before, after, body) ==
    after = SubSeq(before, 1, OpenAt(before)) \o body
                \o SubSeq(before, CloseAt(before), Len(before))

\* The lines between the two markers of before, as after has them, when
\* they are n lines.
BodyOf(before, after, n) ==
    SubSeq(after, OpenAt(before) + 1, OpenAt(before) + n)

IsAscending(lines) ==
    \A i \in 1..Len(lines) : \A j \in (i + 1)..Len(lines) :
        ~StrLess(lines[j], lines[i])

Occurrences(lines, x) == Cardinality({i \in 1..Len(lines) : lines[i] = x})

SameLines(a, b) ==
    /\ Len(a) = Len(b)
    /\ \A i \in 1..Len(a) : Occurrences(a, a[i]) = Occurrences(b, a[i])

(* C13: a directive with mode Alphabetical on both markers is rendered as  *)
(* the open marker line, the lines of the aggregate document that are no   *)
(* heading lines in ascending order over the whole document, and the close *)
(* marker line, the two marker lines as they were.                         *)
C13_AlphabeticalBody ==
    (IsMain /\ OnePair(DocBefore) /\ BothModes(DocBefore, Alphabetical)) =>
        LET n == Len(NoTitles(DirectiveAgg(DocBefore)))
            body == BodyOf(DocBefore, DocRendered, n)
        IN  /\ BodyReplaced(DocBefore, DocRendered, body)
            /\ SameLines(body, NoTitles(DirectiveAgg(DocBefore)))
            /\ IsAscending(body)

\* An aggregate with the sections ==T== b and ==U== a, rendered as a, b.
C13_Witness ==
    /\ IsMain
    /\ OnePair(DocBefore)
    /\ BothModes(DocBefore, Alphabetical)
    /\ DirectiveAgg(DocBefore)
           = <<Heading(<<"T">>), <<"b">>, Heading(<<"U">>), <<"a">>>>
    /\ BodyOf(DocBefore, DocRendered, 2) = <<<<"a">>, <<"b">>>>
    /\ BodyReplaced(DocBefore, DocRendered, <<<<"a">>, <<"b">>>>)

-----------------------------------------------------------------------------
(* The headings a Sectioned directive shows. *)

\* ===[[A]]===
LinkHeading(t) ==
    <<"=", "=", "=", "[", "[">> \o t \o <<"]", "]", "=", "=", "=">>

\* ===([[A]])===
ParenLinkHeading(t) ==
    <<"=", "=", "=", "(", "[", "[">> \o t \o <<"]", "]", ")", "=", "=", "=">>

\* body is agg line by line: a line that is no heading line as it is, and
\* the heading line ==t== as shown(t).
SectionedAs(body, agg, shown(_)) ==
    /\ Len(body) = Len(agg)
    /\ \A i \in 1..Len(agg) :
          /\ ~_find_title(agg[i]) => body[i] = agg[i]
          /\ \A t \in Titles : agg[i] = Heading(t) => body[i] = shown(t)

-----------------------------------------------------------------------------
(* C15: an upsert saves the aggregate document only when the text it has   *)
(* built differs from the text it loaded: an upsert that leaves the text   *)
(* of the aggregate as it was issues no save.                              *)
C15_UpsertSavesOnlyWhenChanged ==
    (/\ IsUpsert
     /\ page_text(store, ListPage(call.list_name))
            = page_text(prev, ListPage(call.list_name)))
        => saves = <<>>

-----------------------------------------------------------------------------
(* The content blocks of a document, read block by block. *)

\* The first line from the k-th on that holds a content-start marker, or 0.
FirstStartFrom(lines, k) ==
    LET at == {i \in k..Len(lines) : list_content_start(lines[i]) # None}
    IN  IF at = {} THEN 0 ELSE Min(at)

\* The first line from the k-th on that holds a content-end marker, or 0.
FirstEndFrom(lines, k) ==
    LET at == {i \in k..Len(lines) : list_content_end(lines[i])}
    IN  IF at = {} THEN 0 ELSE Min(at)

\* The blocks of the lines from the k-th on: a block runs from the first
\* start marker line to the first end marker line after it, and the next
\* block is looked for after that end marker line.  A start marker line
\* with no end marker line after it opens no block.
RECURSIVE BlocksFrom(_, _)
BlocksFrom(lines, k) ==
    LET i == FirstStartFrom(lines, k)
        j == IF i = 0 THEN 0 ELSE FirstEndFrom(lines, i + 1)
    IN  IF j = 0 THEN <<>>
        ELSE <<[list_name |-> list_content_start(lines[i])[1],
                lines |-> NoTitles(SubSeq(lines, i + 1, j - 1))]>>
                 \o BlocksFrom(lines, j + 1)

Blocks(lines) == BlocksFrom(lines, 1)

\* The line from which on the lines belong to no terminated block.
RECURSIVE AfterBlocks(_, _)
AfterBlocks(lines, k) ==
    LET i == FirstStartFrom(lines, k)
        j == IF i = 0 THEN 0 ELSE FirstEndFrom(lines, i + 1)
    IN  IF j = 0 THEN k ELSE AfterBlocks(lines, j + 1)

\* The document ends inside a block that was opened and not closed.
Unterminated(lines) == FirstStartFrom(lines, AfterBlocks(lines, 1)) # 0

UpsertSaves ==
    SelectSeq(saves, LAMBDA r : r.summary = "Add list content to list")

(* C16: a block opened by a start marker and not closed by an end marker   *)
(* before the end of the document causes no upsert: scanning a document    *)
(* makes as many upserts as it has end marker lines that close a block,    *)
(* and a document whose only block is not closed leaves every page as it   *)
(* was.                                                                    *)
C16_UnterminatedBlockDropped ==
    IsMain =>
        /\ Len(UpsertSaves) = Len(Blocks(DocBefore))
        /\ (Unterminated(DocBefore) /\ Blocks(DocBefore) = <<>>) =>
               (store = prev /\ saves = <<>>)

\* A document with a closed block and, after it, a block that is opened,
\* has a content line and is not closed: one upsert.
C16_Witness ==
    /\ IsMain
    /\ Unterminated(DocBefore)
    /\ Len(Blocks(DocBefore)) = 1
    /\ DocBefore[Len(DocBefore)] \in ContentLines
    /\ Len(UpsertSaves) = 1

-----------------------------------------------------------------------------
(* The scanner as the machine with the states Outside and InList. *)

\* The store and the saves after r, what an upsert left, is added to s.
Upserted(s, r) == [store |-> r.store, saves |-> s.saves \o r.saves]

\* The upserts of the blocks, in order, each with the title of the document
\* as its source title.
RECURSIVE UpsertBlocks(_, _, _)
UpsertBlocks(s, blocks, page) ==
    IF blocks = <<>> THEN s
    ELSE UpsertBlocks(Upserted(s, _add_to_list(s.store, Head(blocks).lines,
                                               page, Head(blocks).list_name)),
                      Tail(blocks), page)

\* What the machine leaves for the document of the last main_function.
MachineUpserts ==
    UpsertBlocks([store |-> prev, saves |-> <<>>], Blocks(DocBefore),
                 call.page)

(* C17: the scanner of main_function is the machine with the states        *)
(* Outside and InList: the upserts it makes are those of the blocks the    *)
(* machine emits, in order, each with the title of the document as source  *)
(* title and with the lines strictly between its start marker line and its *)
(* end marker line, heading lines left out; no line outside a block is in  *)
(* any upsert.                                                             *)
C17_ScannerIsTheMachine ==
    IsMain =>
        /\ UpsertSaves = MachineUpserts.saves
        /\ store = MachineUpserts.store

\* A document with a content line before its one block: the section holds
\* the line of the block and not the line before it.
C17_Witness ==
    /\ IsMain
    /\ Len(DocBefore) = 4
    /\ DocBefore[1] = <<"a">>
    /\ Blocks(DocBefore) = <<[list_name |-> <<"X">>, lines |-> <<<<"b">>>>]>>
    /\ \E i \in HeadingAt(AggOf(<<"X">>), Heading(call.page)) :
          BodyAt(AggOf(<<"X">>), i) = <<<<"b">>>>
    /\ UpsertSaves = MachineUpserts.saves

-----------------------------------------------------------------------------
(* run, one iteration of its loop at a time. *)

\* A document that feeds a list and shows it.
FeedAndShow ==
    join(<<SourceStart(<<"X">>), <<"a">>, SourceEnd,
           ListStart(Sectioned, <<"X">>), ListEnd(Sectioned)>>)

StepTexts == RunTexts \cup {FeedAndShow}

\* run up to its loop: the start is read and the titles are enumerated.
BeginRun ==
    /\ call.op \in {"none", "run_end"}
    /\ pages_to_run' = _pages_from(store, _get_page_start(store),
                                   PAGES_TO_GO_THROUGH)
    /\ call' = [op |-> "run_loop", i |-> 0, last_page_seen |-> EmptyText]
    /\ prev' = store
    /\ saves' = <<>>
    /\ phase' = ~phase
    /\ UNCHANGED <<store, rendered, latest, processed, PAGES_TO_GO_THROUGH>>

\* One iteration of the loop: main_function on the next title.
LoopStep ==
    /\ call.op = "run_loop"
    /\ call.i < Len(pages_to_run)
    /\ LET r == main_function(store, pages_to_run[call.i + 1])
       IN  /\ store' = r.store
           /\ saves' = saves \o r.saves
           /\ rendered' = r.new_text
    /\ call' = [op |-> "run_loop", i |-> call.i + 1,
                last_page_seen |-> pages_to_run[call.i + 1]]
    /\ processed' = processed \cup {pages_to_run[call.i + 1]}
    /\ UNCHANGED <<prev, latest, pages_to_run, phase, PAGES_TO_GO_THROUGH>>

\* The loop is over: the next start is written.
EndRun ==
    /\ call.op = "run_loop"
    /\ call.i = Len(pages_to_run)
    /\ LET w == _set_page_start(store,
                    NextStart(pages_to_run, call.last_page_seen,
                              PAGES_TO_GO_THROUGH))
       IN  /\ store' = w.store
           /\ saves' = saves \o w.saves
    /\ call' = [op |-> "run_end"]
    /\ UNCHANGED <<prev, rendered, latest, pages_to_run, processed, phase,
                   PAGES_TO_GO_THROUGH>>

InitSteps ==
    /\ \E S \in SUBSET RunTitles :
          \E w \in [S -> StepTexts], agg \in RunAggTexts,
             start \in {EmptyText} \cup RunTitles :
              store = page_save(page_save(w, ListPage(<<"X">>), agg),
                                STORAGE_PAGE, start)
    /\ PAGES_TO_GO_THROUGH \in 1..MaxBatch
    /\ InitGhosts

NextSteps == BeginRun \/ LoopStep \/ EndRun

SpecSteps == InitSteps /\ [][NextSteps]_vars

InLoop == call.op = "run_loop" /\ call.i >= 1

\* The upserts of the blocks of the titles i..n of pages, title by title.
RECURSIVE UpsertPages(_, _, _, _)
UpsertPages(s, pages, i, n) ==
    IF i > n THEN s
    ELSE UpsertPages(UpsertBlocks(s, Blocks(split(page_text(s.store,
                                                            pages[i]))),
                                  pages[i]),
                     pages, i + 1, n)

\* The upserts of the first i titles the enumerator returned, in its order.
UpsertsThrough(i) ==
    UpsertPages([store |-> prev, saves |-> <<>>], pages_to_run, 1, i)

(* C18: within one run the titles are processed in the order the           *)
(* enumerator returned them; when a title has been processed the upserts   *)
(* made are those of the titles up to it, in order, and none of a later    *)
(* title, and what its render pass has read is the store with all of these *)
(* upserts applied, its own included.                                      *)
C18_InOrderScanBeforeRender ==
    InLoop =>
        /\ call.last_page_seen = pages_to_run[call.i]
        /\ UpsertSaves = UpsertsThrough(call.i).saves
        /\ store = UpsertsThrough(call.i).store
        /\ rendered = render_sub(UpsertsThrough(call.i).store,
                                 page_text(UpsertsThrough(call.i).store,
                                           pages_to_run[call.i]))

\* The second title of a batch feeds the list and shows it, the list having
\* had no section of that title: the rendered text shows the section.
C18_Witness ==
    /\ InLoop
    /\ call.i = 2
    /\ page_text(prev, pages_to_run[2]) = FeedAndShow
    /\ page_text(prev, pages_to_run[1]) = FeedAndShow
    /\ HeadingAt(split(page_text(prev, ListPage(<<"X">>))),
                 Heading(pages_to_run[2])) = {}
    /\ \E k \in 1..Len(split(rendered)) :
          split(rendered)[k] = ParenLinkHeading(pages_to_run[2])
    /\ Len(UpsertSaves) = 2

-----------------------------------------------------------------------------
(* Documents with content markers of two lists. *)

NestedLists == {<<"X">>, <<"Y">>}

NestedLines ==
    {SourceStart(l) : l \in NestedLists} \cup {SourceEnd, <<"a">>}
NestedTexts ==
    {join(lines) : lines \in SeqsUpTo(NestedLines, MaxNestedLines)}

\* Documents with two blocks of one list and the lines between them.
TwoBlockTexts ==
    {join(<<SourceStart(<<"X">>)>> \o c1 \o <<SourceEnd>> \o mid
              \o <<SourceStart(<<"X">>)>> \o c2 \o <<SourceEnd>>) :
        c1 \in Contents, c2 \in Contents, mid \in SeqsUpTo({<<"b">>}, MaxMid)}

InitNested ==
    /\ \E page \in DocTitles, text \in NestedTexts \cup TwoBlockTexts,
          agg \in DocAggTexts :
          store = page_save(page_save(NoStore, page, text),
                            ListPage(<<"X">>), agg)
    /\ InitCommon

NextNested == MainFunction

SpecNested == InitNested /\ [][NextNested]_vars

\* The list a start marker line names.
StartList(line) == CHOOSE l \in NestedLists : line = SourceStart(l)

\* The first line opens a block, the block is closed, and a line inside it
\* is a start marker line, of that list or of another.
NestedStart(lines) ==
    /\ Len(lines) >= 3
    /\ \E l \in NestedLists : lines[1] = SourceStart(l)
    /\ FirstEndFrom(lines, 2) # 0
    /\ \E k \in 2..(FirstEndFrom(lines, 2) - 1) :
          \E l \in NestedLists : lines[k] = SourceStart(l)

\* lines ends with tail.
EndsWith(lines, tail) ==
    /\ Len(lines) >= Len(tail)
    /\ SubSeq(lines, Len(lines) - Len(tail) + 1, Len(lines)) = tail

(* C19: a start marker line met inside a block of list L opens no block    *)
(* and does not change the list: the upsert made at the end marker goes to *)
(* the aggregate of L and its lines are all the lines between the first    *)
(* start marker line and the end marker line, the inner start marker line  *)
(* among them as an ordinary line.                                         *)
C19_StartInsideBlockIsContent ==
    (IsMain /\ NestedStart(DocBefore)) =>
        /\ UpsertSaves # <<>>
        /\ UpsertSaves[1].page = ListPage(StartList(DocBefore[1]))
        /\ EndsWith(split(UpsertSaves[1].text),
                    <<Heading(call.page)>>
                        \o SubSeq(DocBefore, 2,
                                  FirstEndFrom(DocBefore, 2) - 1))

\* A block of list X with a start marker line of list Y and a content line
\* inside: the section in the aggregate of X holds both lines, and list Y
\* has no page.
C19_Witness ==
    /\ IsMain
    /\ DocBefore = <<SourceStart(<<"X">>), SourceStart(<<"Y">>), <<"a">>,
                     SourceEnd>>
    /\ Len(UpsertSaves) = 1
    /\ \E i \in HeadingAt(AggOf(<<"X">>), Heading(call.page)) :
          BodyAt(AggOf(<<"X">>), i) = <<SourceStart(<<"Y">>), <<"a">>>>
    /\ ListPage(<<"Y">>) \notin DOMAIN store

-----------------------------------------------------------------------------
(* Several blocks of one list in one document. *)

\* The document has two closed blocks or more, all of one list.
SeveralBlocksOfOneList(lines) ==
    /\ Len(Blocks(lines)) >= 2
    /\ \A i \in 1..Len(Blocks(lines)) :
          Blocks(lines)[i].list_name = Blocks(lines)[1].list_name

LastBlock(lines) == Blocks(lines)[Len(Blocks(lines))]

(* C20: when a document holds several closed blocks of one list, each      *)
(* upsert replaces the section the one before it wrote: afterwards the     *)
(* aggregate has one section of the document's title, holding the lines of *)
(* the last block and not those of the blocks before it, or no section of  *)
(* that title when the last block is empty.                                *)
C20_LastBlockWins ==
    (IsMain /\ SeveralBlocksOfOneList(DocBefore)) =>
        LET agg == AggOf(LastBlock(DocBefore).list_name)
            at == HeadingAt(agg, Heading(call.page))
        IN  IF LastBlock(DocBefore).lines # <<>>
            THEN /\ Cardinality(at) = 1
                 /\ \A i \in at : BodyAt(agg, i) = LastBlock(DocBefore).lines
            ELSE at = {}

\* A block with the line a and, after it, a block with the line b: the
\* section holds b alone.
C20_Witness ==
    /\ IsMain
    /\ DocBefore = <<SourceStart(<<"X">>), <<"a">>, SourceEnd,
                     SourceStart(<<"X">>), <<"b">>, SourceEnd>>
    /\ Len(UpsertSaves) = 2
    /\ \E i \in HeadingAt(AggOf(<<"X">>), Heading(call.page)) :
          BodyAt(AggOf(<<"X">>), i) = <<<<"b">>>>

====
